---- MODULE Spec2Model ----
(***************************************************************************)
(* Model of src/linear_classifier/linear_classifier.py: the class Linear,  *)
(* a perceptron-trained binary linear classifier.                          *)
(*                                                                         *)
(* Number representation (exact fixed point instead of IEEE doubles):      *)
(*   attribute a      stands for a / AttDen      (normalized, 0..AttDen)   *)
(*   learning rate e  stands for e / EtaDen                                *)
(*   weight w         stands for w / (AttDen * EtaDen)                     *)
(*   train fraction f stands for f / FracDen                               *)
(*   threshold arg t  stands for t / ThrDen                                *)
(*   an accuracy, an error and the stored threshold are percentages in     *)
(*   units of 10^-Decimals percent; NaN is the result of 0/0.              *)
(* Floating-point rounding of sums and products is not modelled.           *)
(*                                                                         *)
(* train() is modelled statement by statement (pc, idx); every other       *)
(* method is one atomic action.  After sys.exit (pc = "NonConverged") the  *)
(* process is gone and no action is enabled.  np.random.shuffle draws from *)
(* numpy's global generator, which the class never seeds: any permutation. *)
(* default_rng(seed) is a fixed function of an int seed and arbitrary for  *)
(* seed None.  Datasets with a constant column (0/0 in the normalization)  *)
(* are not among the inputs.                                               *)
(***************************************************************************)
EXTENDS Integers, Sequences, FiniteSets, TLC

VARIABLES
    data,        \* self.data: the loaded rows, file order (normalized units)
    norm,        \* self.norm (self.shuffled is a view of the same buffer)
    trainSS,     \* self.trainSS
    testSS,      \* self.testSS
    training,    \* self.training
    threshold,   \* self.threshold (percent)
    eta,         \* self.eta
    seed,        \* self.seed: {} is None, {n} is the int n
    max_epochs,  \* self.max_epochs
    verbose,     \* self.verbose
    weights,     \* self.weights
    epoch_num,   \* self.epoch_num
    train_accs,  \* self.train_accs
    trainAcc,    \* self.trainAcc
    trainErr,    \* self.trainErr
    testAcc,     \* self.testAcc
    testErr,     \* self.testErr
    pc,          \* trainer state, or the position inside train()
    idx,         \* position of "for ex in self.trainSS"
    ret,         \* value returned by the last test() call, <<>> otherwise
    lastCall,    \* the method called last ("__init__" after construction)
    lastError,   \* exception raised by the last call, "none" otherwise
    calls        \* number of method calls made on the object

vars == <<data, norm, trainSS, testSS, training, threshold, eta, seed,
          max_epochs, verbose, weights, epoch_num, train_accs, trainAcc,
          trainErr, testAcc, testErr, pc, idx, ret, lastCall, lastError, calls>>

config == <<training, threshold, eta, seed, max_epochs, verbose>>
subsets == <<data, norm, trainSS, testSS>>
runState == <<epoch_num, train_accs, trainAcc, trainErr, testAcc, testErr>>

----------------------------------------------------------------------------
(* Bounds of the model *)

MaxEpochs == 3      \* max_epochs is drawn from {0, 1, MaxEpochs}
MaxSeed == 1        \* integer seeds are drawn from 0..MaxSeed
MaxCalls == 1       \* method calls made after construction

(* Units *)

AttDen == 2
EtaDen == 10
FracDen == 20
ThrDen == 1000
Decimals == 3
Window == 3
NaN == -1
Unset == -2

RECURSIVE Pow10(_)
Pow10(n) == IF n = 0 THEN 1 ELSE 10 * Pow10(n - 1)

PctUnit == Pow10(Decimals)

----------------------------------------------------------------------------
(* Inputs *)

\* Normalized rows <<bias, x1, label>> in file order: the attribute and the label
\* column each reach 0 and 1, as (data - MIN) / (MAX - MIN) makes them.
Datasets ==
    { << <<AttDen, 0, 0>>, <<AttDen, AttDen, 1>> >>,
      << <<AttDen, 1, 0>>, <<AttDen, 1, 0>>, <<AttDen, 0, 1>>, <<AttDen, AttDen, 0>> >> }

TrainFractions == {5, 15, 18}       \* 0.25, 0.75 (default), 0.9
Thresholds == {600, 900}            \* 0.6, 0.9 (default)
LearningRates == {1, 5}             \* 0.1 (default), 0.5
DefaultLr == CHOOSE e \in LearningRates : \A o \in LearningRates : e <= o
WeightGrid == {0, 5}                \* draws of rng.random(): 0.0, 0.25

EpochBudgets == {0, 1, MaxEpochs}

Seeds == {{}} \cup {{n} : n \in 0..MaxSeed}

SeedStrings == {"None", "none", "abc", ""}
Absent == [kind |-> "absent", i |-> 0, s |-> ""]
IntArg(n) == [kind |-> "int", i |-> n, s |-> ""]
StrArg(x) == [kind |-> "str", i |-> 0, s |-> x]
SeedArgs == {Absent} \cup {IntArg(n) : n \in 0..MaxSeed}
                     \cup {StrArg(x) : x \in SeedStrings}

----------------------------------------------------------------------------
(* Pure helpers *)

RECURSIVE SumSeq(_)
SumSeq(s) == IF s = <<>> THEN 0 ELSE Head(s) + SumSeq(Tail(s))

\* Python round() and numpy rint: nearest integer, ties to the even one.
RoundHalfEven(num, den) ==
    LET q == num \div den
        r == num % den
    IN  IF 2 * r > den \/ (2 * r = den /\ q % 2 = 1) THEN q + 1 ELSE q

Attributes(ex) == SubSeq(ex, 1, Len(ex) - 1)
ClassLabel(ex) == ex[Len(ex)]

WeightedSum(w, att) == SumSeq([i \in 1..Len(att) |-> w[i] * att[i]])

run_model(w, att) == IF WeightedSum(w, att) > 0 THEN 1 ELSE 0

\* mutant: the sign of the correction is reversed
adjust_weights_reversed(w, e, att, tar, hyp) ==
    [i \in 1..Len(w) |-> w[i] + e * (hyp - tar) * att[i]]

adjust_weights(w, e, att, tar, hyp) ==
    [i \in 1..Len(w) |-> w[i] + e * (tar - hyp) * att[i]]

NumCorrect(w, examples) ==
    Cardinality({i \in 1..Len(examples) :
                    ClassLabel(examples[i]) = run_model(w, Attributes(examples[i]))})

\* mutant: the hypotheses are compared with column 0 instead of the label column
NumIncorrectColumn0(w, examples) ==
    Cardinality({i \in 1..Len(examples) :
                    examples[i][1] # run_model(w, Attributes(examples[i]))})

NumIncorrect(w, examples) ==
    Cardinality({i \in 1..Len(examples) :
                    ClassLabel(examples[i]) # run_model(w, Attributes(examples[i]))})

Percent(count, total) ==
    IF total = 0 THEN NaN ELSE RoundHalfEven(count * 100 * PctUnit, total)

accuracy(w, examples) == Percent(NumCorrect(w, examples), Len(examples))

error(w, examples) == Percent(NumIncorrect(w, examples), Len(examples))

LastUpTo(h, n) == SubSeq(h, IF Len(h) > n THEN Len(h) - n + 1 ELSE 1, Len(h))

\* np.mean(self.train_accs[-3:]) < self.threshold; any comparison with nan is False
MeanBelow(h, thr) ==
    LET w == LastUpTo(h, Window)
    IN  /\ \A i \in 1..Len(w) : w[i] # NaN
        /\ SumSeq(w) < thr * Len(w)

\* mutants: the budget check is off by one, late and early
ExceedsBudgetLate(e, m) == e > m + 1
ExceedsBudgetEarly(e, m) == e >= m

ExceedsBudget(e, m) == e > m

ScaleThreshold(t) == (t * 100 * PctUnit) \div ThrDen

Shuffles(s) == {[i \in 1..Len(s) |-> s[p[i]]] : p \in Permutations(1..Len(s))}

\* mutant: int() instead of round()
TrainIndTruncated(f, n) == (f * n) \div FracDen

TrainInd(f, n) == RoundHalfEven(f * n, FracDen)

SplitTrain(s, k) == SubSeq(s, 1, k)
SplitTest(s, k) == SubSeq(s, k + 1, Len(s))

NumWeights(s) == Len(s[1]) - 1

SeededWeights(n, k) == [i \in 1..k |-> 5 * (((n + 1) \div i) % 2)]

\* mutant: the generator is created without the seed
DrawWeightsUnseeded(sd, k) == [1..k -> WeightGrid]

DrawWeights(sd, k) ==
    IF sd = {} THEN [1..k -> WeightGrid]
    ELSE {SeededWeights(CHOOSE n \in sd : TRUE, k)}

Truthy(a) ==
    CASE a.kind = "absent" -> FALSE
      [] a.kind = "int" -> a.i # 0
      [] a.kind = "str" -> a.s # ""

Lower(x) == IF x \in {"None", "NONE", "none"} THEN "none" ELSE x

----------------------------------------------------------------------------
(* Construction *)

\* Linear(data, train, threshold, seed=..., max_epochs=...): lr and verbose take
\* their defaults here; set_lr and set_verbose reach their other values.
Init ==
    /\ data \in Datasets
    /\ norm \in Shuffles(data)
    /\ training \in TrainFractions
    /\ \E t \in Thresholds : threshold = ScaleThreshold(t)
    /\ eta = DefaultLr
    /\ seed \in Seeds
    /\ max_epochs \in EpochBudgets
    /\ verbose = TRUE
    /\ trainSS = SplitTrain(norm, TrainInd(training, Len(norm)))
    /\ testSS = SplitTest(norm, TrainInd(training, Len(norm)))
    /\ weights \in DrawWeights(seed, NumWeights(norm))
    /\ epoch_num = Unset
    /\ train_accs = <<>>
    /\ trainAcc = Unset /\ trainErr = Unset
    /\ testAcc = Unset /\ testErr = Unset
    /\ pc = "Untrained"
    /\ idx = 0
    /\ ret = <<>>
    /\ lastCall = "__init__"
    /\ lastError = "none"
    /\ calls = 0

Callable == pc \in {"Untrained", "Converged"} /\ calls < MaxCalls

Called(method) ==
    /\ calls' = calls + 1
    /\ lastCall' = method
    /\ idx' = idx

----------------------------------------------------------------------------
(* Setters *)

\* mutant: the setter re-splits the shuffled rows with the new fraction
set_train_subset_resplit(fraction) ==
    /\ Callable /\ Called("set_train_subset")
    /\ pc' = pc
    /\ training' = fraction
    /\ ret' = <<>> /\ lastError' = "none"
    /\ trainSS' = SplitTrain(norm, TrainInd(fraction, Len(norm)))
    /\ testSS' = SplitTest(norm, TrainInd(fraction, Len(norm)))
    /\ UNCHANGED <<threshold, eta, seed, max_epochs, verbose, weights>>
    /\ UNCHANGED <<data, norm, runState>>

set_train_subset(fraction) ==
    /\ Callable /\ Called("set_train_subset")
    /\ pc' = pc
    /\ training' = fraction
    /\ ret' = <<>> /\ lastError' = "none"
    /\ UNCHANGED <<threshold, eta, seed, max_epochs, verbose, weights>>
    /\ UNCHANGED <<subsets, runState>>

set_threshold(t) ==
    /\ Callable /\ Called("set_threshold")
    /\ pc' = pc
    /\ threshold' = ScaleThreshold(t)
    /\ ret' = <<>> /\ lastError' = "none"
    /\ UNCHANGED <<training, eta, seed, max_epochs, verbose, weights>>
    /\ UNCHANGED <<subsets, runState>>

set_lr(lr) ==
    /\ Callable /\ Called("set_lr")
    /\ pc' = pc
    /\ eta' = lr
    /\ ret' = <<>> /\ lastError' = "none"
    /\ UNCHANGED <<training, threshold, seed, max_epochs, verbose, weights>>
    /\ UNCHANGED <<subsets, runState>>

set_verbose(v) ==
    /\ Callable /\ Called("set_verbose")
    /\ pc' = pc
    /\ verbose' = v
    /\ ret' = <<>> /\ lastError' = "none"
    /\ UNCHANGED <<training, threshold, eta, seed, max_epochs, weights>>
    /\ UNCHANGED <<subsets, runState>>

----------------------------------------------------------------------------
(* initialize / reset *)

\* initialize(shuffle), run with the seed sd
initialize(shuffle, sd) ==
    /\ IF shuffle
       THEN /\ norm' \in Shuffles(norm)
            /\ trainSS' = SplitTrain(norm', TrainInd(training, Len(norm')))
            /\ testSS' = SplitTest(norm', TrainInd(training, Len(norm')))
       ELSE UNCHANGED <<norm, trainSS, testSS>>
    /\ weights' \in DrawWeights(sd, NumWeights(norm))
    /\ UNCHANGED data

\* set_seed(a): the seed it stores, or "ValueError"
SeedAccepted(a) ==
    \/ a.kind = "int"
    \/ a.kind = "str" /\ Lower(a.s) = "none"

SeedStored(a) == IF a.kind = "int" THEN {a.i} ELSE {}

ResetName(shuffle) == IF shuffle THEN "reset(shuffle=True)" ELSE "reset(shuffle=False)"

reset(shuffle, a) ==
    /\ Callable /\ Called(ResetName(shuffle))
    /\ ret' = <<>>
    /\ UNCHANGED <<training, threshold, eta, max_epochs, verbose, runState>>
    /\ IF Truthy(a) /\ ~SeedAccepted(a)
       THEN /\ lastError' = "ValueError"
            /\ UNCHANGED <<seed, weights, subsets, pc>>
       ELSE /\ lastError' = "none"
            /\ pc' = "Untrained"
            /\ seed' = IF Truthy(a) THEN SeedStored(a) ELSE seed
            /\ initialize(shuffle, seed')

----------------------------------------------------------------------------
(* test *)

test(traindata) ==
    /\ Callable /\ Called("test")
    /\ pc' = pc
    /\ LET ds == IF traindata THEN trainSS ELSE testSS
       IN  ret' = <<accuracy(weights, ds), error(weights, ds)>>
    /\ lastError' = "none"
    /\ UNCHANGED <<config, weights, subsets, runState>>

----------------------------------------------------------------------------
(* train *)

TrainStart ==
    /\ Callable /\ Called("train")
    /\ epoch_num' = 0
    /\ trainAcc' = accuracy(weights, trainSS)
    /\ trainErr' = error(weights, trainSS)
    /\ train_accs' = <<trainAcc'>>
    /\ pc' = "while"
    /\ ret' = <<>> /\ lastError' = "none"
    /\ UNCHANGED <<config, weights, subsets, testAcc, testErr>>

TrainWhile ==
    /\ pc = "while"
    /\ pc' = IF MeanBelow(train_accs, threshold) THEN "budget" ELSE "final"
    /\ UNCHANGED <<config, weights, subsets, runState, idx, ret, lastCall, lastError, calls>>

TrainBudget ==
    /\ pc = "budget"
    /\ epoch_num' = epoch_num + 1
    /\ IF ExceedsBudget(epoch_num', max_epochs)
       THEN pc' = "NonConverged" /\ idx' = idx
       ELSE pc' = "examples" /\ idx' = 1
    /\ UNCHANGED <<config, weights, subsets, train_accs, trainAcc, trainErr,
                   testAcc, testErr, ret, lastCall, lastError, calls>>

TrainExample ==
    /\ pc = "examples"
    /\ idx <= Len(trainSS)
    /\ LET ex == trainSS[idx]
           attributes == Attributes(ex)
           classLabel == ClassLabel(ex)
           hypothesis == run_model(weights, attributes)
       IN  weights' = adjust_weights(weights, eta, attributes, classLabel, hypothesis)
    /\ idx' = idx + 1
    /\ UNCHANGED <<config, subsets, runState, pc, ret, lastCall, lastError, calls>>

TrainScore ==
    /\ pc = "examples"
    /\ idx > Len(trainSS)
    /\ trainAcc' = accuracy(weights, trainSS)
    /\ trainErr' = error(weights, trainSS)
    /\ train_accs' = Append(train_accs, trainAcc')
    /\ pc' = "while"
    /\ idx' = 0
    /\ UNCHANGED <<config, weights, subsets, epoch_num, testAcc, testErr,
                   ret, lastCall, lastError, calls>>

TrainFinal ==
    /\ pc = "final"
    /\ testAcc' = accuracy(weights, testSS)
    /\ testErr' = error(weights, testSS)
    /\ pc' = "Converged"
    /\ UNCHANGED <<config, weights, subsets, epoch_num, train_accs, trainAcc,
                   trainErr, idx, ret, lastCall, lastError, calls>>

TrainStep ==
    \/ TrainWhile
    \/ TrainBudget
    \/ TrainExample
    \/ TrainScore
    \/ TrainFinal

----------------------------------------------------------------------------

Next ==
    \/ \E f \in TrainFractions : set_train_subset(f)
    \/ \E t \in Thresholds : set_threshold(t)
    \/ \E lr \in LearningRates : set_lr(lr)
    \/ \E v \in BOOLEAN : set_verbose(v)
    \/ \E sh \in BOOLEAN, a \in SeedArgs : reset(sh, a)
    \/ \E td \in BOOLEAN : test(td)
    \/ TrainStart
    \/ TrainStep

Spec == Init /\ [][Next]_vars

\* train() is synchronous: once called it runs to its return or to sys.exit.
FairSpec == Spec /\ WF_vars(TrainStep)

----------------------------------------------------------------------------
(* Helpers of the properties *)

Count(s, r) == Cardinality({i \in 1..Len(s) : s[i] = r})
SameRows(s, t) ==
    /\ Len(s) = Len(t)
    /\ \A i \in 1..Len(s) : Count(s, s[i]) = Count(t, s[i])

InTrain == pc \in {"while", "budget", "examples", "final"}
TrainEnded == pc \in {"Converged", "NonConverged"}

\* the last min(Window, n) entries of the accuracy history, read directly
Tail3(h) == [i \in 1..(IF Len(h) < 3 THEN Len(h) ELSE 3) |->
                h[Len(h) - (IF Len(h) < 3 THEN Len(h) ELSE 3) + i]]
Tail3Defined(h) == \A i \in 1..Len(Tail3(h)) : Tail3(h)[i] >= 0
\* mean(Tail3(h)) >= thr and mean(Tail3(h)) < thr, on numbers
Tail3MeanAtLeast(h, thr) == Tail3Defined(h) /\ SumSeq(Tail3(h)) >= thr * Len(Tail3(h))
Tail3MeanUnder(h, thr) == Tail3Defined(h) /\ SumSeq(Tail3(h)) < thr * Len(Tail3(h))

----------------------------------------------------------------------------
(* C1: every train() call terminates: the epoch counter starts at 0, grows  *)
(* by exactly 1 per loop iteration and never otherwise changes during the   *)
(* run, the epoch-budget check is evaluated at most max_epochs + 1 times,   *)
(* and the run ends Converged or NonConverged.                              *)
C1_TrainTerminates ==
    /\ [][/\ (lastCall' = "train" /\ calls' = calls + 1)
                => (epoch_num' = 0 /\ Len(train_accs') = 1 /\ pc' = "while")
          /\ pc = "budget" => epoch_num' = epoch_num + 1
          /\ (InTrain /\ pc # "budget") => epoch_num' = epoch_num
          /\ InTrain' => (epoch_num' >= 0 /\ epoch_num' <= max_epochs' + 1)
          /\ TrainEnded' /\ lastCall' = "train" => epoch_num' <= max_epochs' + 1
         ]_vars
    /\ (InTrain ~> TrainEnded)

C1_Witness ==
    /\ pc = "NonConverged"
    /\ max_epochs = MaxEpochs
    /\ epoch_num = max_epochs + 1

(* C2: the stopping condition is checked before every epoch on the mean of  *)
(* the last min(3, n) accuracies: an epoch starts only when the mean is     *)
(* below the threshold, and train() returns Converged only when the mean is *)
(* at least the threshold.                                                  *)
C2_StopRule ==
    /\ pc = "budget" => Tail3MeanUnder(train_accs, threshold)
    /\ pc = "final" => Tail3MeanAtLeast(train_accs, threshold)

(* C3: whenever train() ends Converged, the reported final training         *)
(* accuracy is at least the threshold percentage.  Stated for a non-empty   *)
(* Training Subset, where trainAcc is a number.                             *)
C3_FinalAccuracy ==
    [][(pc = "final" /\ pc' = "Converged" /\ trainSS # <<>>)
            => trainAcc' >= threshold']_vars

(* C4: the fatal exit is taken exactly when the incremented epoch counter   *)
(* exceeds max_epochs, after max_epochs completed epochs with the stopping  *)
(* condition still unmet; it applies no further weight update, computes no  *)
(* testing accuracy, and nothing runs after it.                             *)
C4_FatalExit ==
    [][/\ pc = "budget"
            => /\ pc' = "NonConverged" <=> epoch_num + 1 > max_epochs
               /\ pc' = "examples" <=> epoch_num + 1 <= max_epochs
       /\ pc' = "NonConverged"
            => /\ pc = "budget"
               /\ epoch_num' = epoch_num + 1
               /\ epoch_num' > max_epochs
               /\ Len(train_accs) = max_epochs + 1
               /\ Tail3MeanUnder(train_accs, threshold)
               /\ UNCHANGED <<weights, trainSS, testSS, train_accs, trainAcc,
                              trainErr, testAcc, testErr, ret>>
       /\ pc # "NonConverged"
       /\ InTrain' => lastError' = "none"
      ]_vars

C4_Witness ==
    /\ pc = "NonConverged"
    /\ max_epochs > 0
    /\ Len(train_accs) = max_epochs + 1
    /\ testAcc = Unset

(* C5: inside an epoch the examples are visited in subset order; each one   *)
(* is classified with the current weights (sum strictly above 0 gives 1)    *)
(* and every weight becomes w_i + lr * (label - hypothesis) * attribute_i   *)
(* before the next example is classified; a correctly classified example    *)
(* leaves the weights unchanged.                                            *)
C5_OnlineUpdate ==
    [][/\ (pc = "budget" /\ pc' = "examples") => (idx' = 1 /\ weights' = weights)
       /\ (pc = "examples" /\ pc' = "examples")
            => LET ex == trainSS[idx]
                   n == Len(ex) - 1
                   ws == SumSeq([i \in 1..n |-> weights[i] * ex[i]])
                   h == IF ws > 0 THEN 1 ELSE 0
               IN  /\ idx <= Len(trainSS)
                   /\ idx' = idx + 1
                   /\ Len(weights') = n
                   /\ \A i \in 1..n :
                        weights'[i] = weights[i] + eta * (ex[n + 1] - h) * ex[i]
                   /\ h = ex[n + 1] => weights' = weights
                   /\ trainSS' = trainSS
       /\ (pc = "examples" /\ pc' # "examples")
            => (idx = Len(trainSS) + 1 /\ pc' = "while" /\ weights' = weights)
      ]_vars

C5_Witness ==
    /\ pc = "examples"
    /\ idx = Len(trainSS)
    /\ idx >= 2
    /\ \E i \in 1..Len(weights) : weights[i] \notin WeightGrid
    /\ run_model(weights, Attributes(trainSS[idx])) # ClassLabel(trainSS[idx])

C7_ResetSeed ==
    [][\A sh \in BOOLEAN, a \in SeedArgs \ {Absent} :
          reset(sh, a) =>
            IF a.kind = "int"
            THEN seed' = {a.i} /\ lastError' = "none"
            ELSE IF a.s \in {"None", "none"}
            THEN seed' = {} /\ lastError' = "none"
            ELSE lastError' = "ValueError"
                 /\ UNCHANGED <<seed, weights, norm, trainSS, testSS>>]_vars

SplitPartitions ==
    /\ trainSS \o testSS = norm
    /\ SameRows(norm, data)
    /\ \A i \in 1..Len(data) :
            Count(trainSS, data[i]) + Count(testSS, data[i]) = Count(data, data[i])

\* k is train_fraction * n rounded to the nearest integer, ties to even
IsRounded(k, f, n) ==
    /\ 2 * (FracDen * k - f * n) <= FracDen
    /\ 2 * (f * n - FracDen * k) <= FracDen
    /\ (2 * (FracDen * k - f * n) = FracDen \/ 2 * (f * n - FracDen * k) = FracDen)
            => k % 2 = 0

(* C8: after construction and after every step the two subsets are the      *)
(* leading and trailing parts of the shuffled rows, which are the rows of   *)
(* the dataset; a shuffle-and-split puts round(train_fraction * N) rows in  *)
(* the Training Subset; train() and reset(shuffle=False) change neither.    *)
C8_Split ==
    /\ SplitPartitions /\ IsRounded(Len(trainSS), training, Len(data))
    /\ [][/\ data' = data
          /\ <<norm, trainSS, testSS>>' # <<norm, trainSS, testSS>> => SplitPartitions'
          /\ (lastCall' = "reset(shuffle=True)" /\ calls' = calls + 1
                /\ lastError' = "none")
                => IsRounded(Len(trainSS'), training', Len(data'))
          /\ (lastCall' \in {"train", "reset(shuffle=False)"})
                => UNCHANGED <<trainSS, testSS>>
         ]_vars

C8_Witness ==
    /\ lastCall = "reset(shuffle=True)"
    /\ lastError = "none"
    /\ norm # data
    /\ Len(trainSS) = 4
    /\ training = 18

IsSetter(m) == m \in {"set_train_subset", "set_threshold", "set_lr", "set_verbose"}

(* C9: a setter changes only its own field (set_threshold stores the        *)
(* fraction times 100); weights and subsets change only in reset or train.  *)
C9_SetterFrame ==
    [][/\ (calls' = calls + 1 /\ IsSetter(lastCall'))
            => /\ UNCHANGED <<weights, data, norm, trainSS, testSS, seed,
                              max_epochs, epoch_num, train_accs, trainAcc,
                              trainErr, testAcc, testErr>>
               /\ lastCall' # "set_train_subset" => training' = training
               /\ lastCall' # "set_threshold" => threshold' = threshold
               /\ lastCall' # "set_lr" => eta' = eta
               /\ lastCall' # "set_verbose" => verbose' = verbose
               /\ lastCall' = "set_threshold"
                    => \E t \in Thresholds : threshold' * ThrDen = 100 * t * PctUnit
               /\ lastCall' = "set_train_subset" => training' \in TrainFractions
               /\ lastCall' = "set_lr" => eta' \in LearningRates
       /\ <<weights, trainSS, testSS>>' # <<weights, trainSS, testSS>>
            => lastCall' \in {"train", "reset(shuffle=True)", "reset(shuffle=False)"}
      ]_vars

C9_Witness ==
    /\ lastCall = "set_train_subset"
    /\ training = 18
    /\ Len(norm) = 4
    /\ Len(trainSS) = 1

Nearest(v, num, den) == 2 * (v * den - num) <= den /\ 2 * (num - v * den) <= den

Complementary(w, ds) ==
    LET m == Cardinality({i \in 1..Len(ds) :
                 ds[i][Len(ds[i])] = run_model(w, Attributes(ds[i]))})
        acc == accuracy(w, ds)
        err == error(w, ds)
    IN  /\ NumCorrect(w, ds) = m
        /\ NumCorrect(w, ds) + NumIncorrect(w, ds) = Len(ds)
        /\ Nearest(acc, 100 * PctUnit * m, Len(ds))
        /\ Nearest(err, 100 * PctUnit * (Len(ds) - m), Len(ds))
        /\ acc + err - 100 * PctUnit \in -1..1

(* C10: on a non-empty example set matches + mismatches = count, accuracy   *)
(* and error are 100 * count / total rounded to 3 decimals and sum to 100   *)
(* within 0.001; test() returns that pair for the current weights and       *)
(* leaves the weights unchanged.                                            *)
C10_Complementary ==
    /\ [](\A ds \in {trainSS, testSS} : ds # <<>> => Complementary(weights, ds))
    /\ [][(lastCall' = "test" /\ calls' = calls + 1)
            => /\ weights' = weights
               /\ ret' \in {<<accuracy(weights, ds), error(weights, ds)>> :
                                ds \in {trainSS, testSS}}]_vars

C10_Witness ==
    /\ lastCall = "test"
    /\ ret = <<66667, 33333>>

====
